---- MODULE Spec2Model ----
(***************************************************************************)
(* Model of the naive-Bayes text classifier of src/index.ts (class Bayes). *)
(*                                                                         *)
(* JavaScript strings are sequences of one-character strings, so that the  *)
(* default tokenizer's replace and split are computed character by         *)
(* character.  Plain objects ({} and the results of JSON.parse) are        *)
(* functions from their own keys to values; a property read falls back to  *)
(* Object.prototype as the language does.  Property values are tagged      *)
(* records (number, NaN, null, undefined, function, string).               *)
(***************************************************************************)
EXTENDS Integers, Sequences, FiniteSets, TLC

(* ------------------------------ bounds --------------------------------- *)

\* total number of learn calls made by the client program
MaxLearn == 2

\* number of classifiers the client constructs after the first one
MaxNew == 1

(* --------------------------- strings ----------------------------------- *)

S_empty == << >>
S_a == <<"a">>
S_x == <<"x">>
S_y == <<"y">>
S_constructor == <<"c","o","n","s","t","r","u","c","t","o","r">>

\* the texts the client passes to learn and categorize
Texts ==
    { S_empty,                          \* ""
      S_a,                              \* "a"
      <<",","b"," ","b">>,              \* ",b b"
      S_constructor }                   \* "constructor"

\* the category names the client uses
CategoryNames == { S_x, S_y, S_constructor }

\* the classifier variables of the client program
Instances == { "A", "B" }

(* ----------------------- JavaScript values ----------------------------- *)

Num(k) == [t |-> "number", n |-> k, f |-> "", s |-> << >>]
NaN == [t |-> "NaN", n |-> 0, f |-> "", s |-> << >>]
Null == [t |-> "null", n |-> 0, f |-> "", s |-> << >>]
Undefined == [t |-> "undefined", n |-> 0, f |-> "", s |-> << >>]
\* a built-in function object, named by its constructor name
Fn(name) == [t |-> "function", n |-> 0, f |-> name, s |-> << >>]
\* the string "function <name>() { [native code] }" followed by the digits s
StrV(name, digits) == [t |-> "string", n |-> 0, f |-> name, s |-> digits]

RECURSIVE Digits(_)
\* decimal representation of a non-negative integer (Number::toString)
Digits(k) == IF k < 10 THEN <<k>> ELSE Digits(k \div 10) \o <<k % 10>>

\* ToBoolean
Truthy(v) ==
    CASE v.t = "number" -> v.n # 0
      [] v.t = "NaN" -> FALSE
      [] v.t = "null" -> FALSE
      [] v.t = "undefined" -> FALSE
      [] v.t = "function" -> TRUE
      [] v.t = "string" -> TRUE

\* ToNumber; the strings of the model all start with "function"
ToNumber(v) ==
    CASE v.t = "number" -> v
      [] v.t = "null" -> Num(0)
      [] OTHER -> NaN

\* the binary + with a number on the right: concatenation when the left
\* operand's primitive is a string (functions convert to their source text)
Plus(v, k) ==
    CASE v.t = "function" -> StrV(v.f, Digits(k))
      [] v.t = "string" -> StrV(v.f, v.s \o Digits(k))
      [] OTHER -> IF ToNumber(v).t = "NaN" THEN NaN ELSE Num(ToNumber(v).n + k)

\* the postfix ++ : ToNumber, then add one
Incr(v) == IF ToNumber(v).t = "NaN" THEN NaN ELSE Num(ToNumber(v).n + 1)

(* ----------------------- property lookup ------------------------------- *)

\* the names every plain object inherits from Object.prototype, within the
\* strings of the model
ObjectPrototypeKeys == { S_constructor }

\* obj[key] for a plain object: own property, else Object.prototype
\* (Object.prototype.constructor is the function Object)
Get(obj, key) ==
    IF key \in DOMAIN obj THEN obj[key]
    ELSE IF key \in ObjectPrototypeKeys THEN Fn("Object")
    ELSE Undefined

\* Object[key] for the global function Object, own being the properties the
\* program has added: own property, else Function.prototype
\* (Function.prototype.constructor is the function Function)
GetOnObjectFn(own, key) ==
    IF key \in DOMAIN own THEN own[key]
    ELSE IF key \in ObjectPrototypeKeys THEN Fn("Function")
    ELSE Undefined

\* obj[key] = v
Put(obj, key, v) == [k \in DOMAIN obj \cup {key} |-> IF k = key THEN v ELSE obj[k]]

\* set[key] for an object whose own properties all hold true
GetFlag(keys, key) ==
    IF key \in keys THEN TRUE ELSE key \in ObjectPrototypeKeys

EmptyObj == [k \in {} |-> Undefined]

(* ------------------------- default tokenizer --------------------------- *)

\* the characters of the model's texts that \s matches
WhiteSpace == { " " }
\* the characters of the model's texts in the ranges a-z, A-Z, A-Я, a-я, 0-9
\* or equal to _
WordChars == { "a", "b", "c", "n", "o", "r", "s", "t", "u", "x", "y", "_" }
\* the characters the class [^(a-zA-ZA-Яa-я0-9_)+\s] does not match: the
\* ranges, and the literal ( ) + that the class also lists; the comma of the
\* model's texts lies outside all of them
KeptChars == WordChars \cup { "(", ")", "+" } \cup WhiteSpace

\* text.replace(rgxPunctuation, " ")
Sanitize(text) ==
    [i \in 1..Len(text) |-> IF text[i] \in KeptChars THEN text[i] ELSE " "]

RECURSIVE SplitWs(_, _, _, _, _)
\* sanitized.split(/\s+/): cur is the piece being read, inRun says that the
\* previous character belonged to a separator
SplitWs(s, i, cur, inRun, acc) ==
    IF i > Len(s) THEN Append(acc, cur)
    ELSE IF s[i] \in WhiteSpace
         THEN IF inRun THEN SplitWs(s, i + 1, cur, TRUE, acc)
              ELSE SplitWs(s, i + 1, << >>, TRUE, Append(acc, cur))
         ELSE SplitWs(s, i + 1, Append(cur, s[i]), FALSE, acc)

defaultTokenizer(text) == SplitWs(Sanitize(text), 1, << >>, FALSE, << >>)

(* -------------------------- frequency table ---------------------------- *)

Range(seq) == { seq[i] : i \in 1..Len(seq) }

RECURSIVE FreqKeys(_, _, _)
\* the keys of the table in insertion order (first occurrence)
FreqKeys(tokens, i, acc) ==
    IF i > Len(tokens) THEN acc
    ELSE IF tokens[i] \in Range(acc) THEN FreqKeys(tokens, i + 1, acc)
         ELSE FreqKeys(tokens, i + 1, Append(acc, tokens[i]))

RECURSIVE FreqCount(_, _, _)
\* the table built by the forEach over tokens; it has no prototype
FreqCount(tokens, i, tbl) ==
    IF i > Len(tokens) THEN tbl
    ELSE IF tokens[i] \notin DOMAIN tbl
         THEN FreqCount(tokens, i + 1, Put(tbl, tokens[i], 1))
         ELSE FreqCount(tokens, i + 1, Put(tbl, tokens[i], tbl[tokens[i]] + 1))

frequencyTable(tokens) ==
    [keys |-> FreqKeys(tokens, 1, << >>),
     count |-> FreqCount(tokens, 1, [k \in {} |-> 0])]

(* ------------------------------ state ---------------------------------- *)

VARIABLES
    inst,        \* the client's classifier variables: the scalar fields and
                 \* the identity of the objects the five map fields refer to
    stores,      \* the heap: for each identity, the objects docCount,
                 \* wordCount, wordFrequencyCount, categories and vocabulary
    ObjectFn,    \* the properties the program has added to the global
                 \* function Object (what {}.constructor refers to)
    ret,         \* the value returned (or thrown) by the last call
    produced,    \* per variable, the tokens the tokenizer has returned to
                 \* the learn calls that built its classifier
    learnCalls,  \* the number of learn calls made so far
    newCalls     \* the number of classifiers constructed after the first

vars == <<inst, stores, ObjectFn, ret, produced, learnCalls, newCalls>>

\* identities of the groups of objects that classifiers refer to
StoreIds == 1..Cardinality(Instances)

\* the objects a constructor without an existing classifier creates ({} each);
\* categories keeps its keys in insertion order, all of them holding true;
\* vocabulary is the set of its keys, all of them holding true
EmptyStore ==
    [docCount |-> EmptyObj,
     wordCount |-> EmptyObj,
     wordFrequencyCount |-> [k \in {} |-> EmptyObj],
     categories |-> << >>,
     vocabulary |-> {}]

\* a client variable that holds no classifier yet
NoInstance ==
    [alive |-> FALSE, store |-> 0, totalDocuments |-> 0, vocabularySize |-> 0]

Alive == { i \in Instances : inst[i].alive }

StoreOf(i) == stores[inst[i].store]

\* an identity no variable other than j refers to
FreshStoreFor(j) ==
    CHOOSE id \in StoreIds :
        /\ \A i \in Instances \ {j} : ~(inst[i].alive /\ inst[i].store = id)
        /\ \A id2 \in StoreIds :
              (\A i \in Instances \ {j} : ~(inst[i].alive /\ inst[i].store = id2))
                  => id <= id2

\* objects no variable refers to any more are collected
Collect(newInst, newStores) ==
    [id \in StoreIds |->
        IF \E i \in Instances : newInst[i].alive /\ newInst[i].store = id
        THEN newStores[id] ELSE EmptyStore]

\* the classifier a constructor or fromJson returns, held by variable i
Constructed(i) == [kind |-> "new", inst |-> i]
\* the receiver, which initializeCategory and learn return
This(i) == [kind |-> "this", inst |-> i]

None == << >>
Some(v) == <<v>>

Init ==
    /\ inst = [i \in Instances |->
                 IF i = "A"
                 THEN [alive |-> TRUE, store |-> 1, totalDocuments |-> 0,
                       vocabularySize |-> 0]
                 ELSE NoInstance]
    /\ stores = [id \in StoreIds |-> EmptyStore]
    /\ ObjectFn = EmptyObj
    /\ ret = Constructed("A")
    /\ produced = [i \in Instances |-> {}]
    /\ learnCalls = 0
    /\ newCalls = 0

(* --------------------------- constructor ------------------------------- *)

\* j = new Bayes()
New(j) ==
    /\ newCalls < MaxNew
    /\ LET newInst == [inst EXCEPT ![j] =
                          [alive |-> TRUE, store |-> FreshStoreFor(j),
                           totalDocuments |-> 0, vocabularySize |-> 0]]
       IN /\ inst' = newInst
          /\ stores' = Collect(newInst, [stores EXCEPT ![FreshStoreFor(j)] = EmptyStore])
    /\ ret' = Constructed(j)
    /\ produced' = [produced EXCEPT ![j] = {}]
    /\ newCalls' = newCalls + 1
    /\ UNCHANGED <<ObjectFn, learnCalls>>

\* j = new Bayes(i): every field is assigned from the existing classifier,
\* the five objects by reference and the two numbers by value
NewFrom(i, j) ==
    /\ i \in Alive
    /\ i # j
    /\ newCalls < MaxNew
    /\ LET newInst == [inst EXCEPT ![j] =
                          [alive |-> TRUE, store |-> inst[i].store,
                           totalDocuments |-> inst[i].totalDocuments,
                           vocabularySize |-> inst[i].vocabularySize]]
       IN /\ inst' = newInst
          /\ stores' = Collect(newInst, stores)
    /\ ret' = Constructed(j)
    /\ produced' = [produced EXCEPT ![j] = produced[i]]
    /\ newCalls' = newCalls + 1
    /\ UNCHANGED <<ObjectFn, learnCalls>>

(* ------------------------ initializeCategory --------------------------- *)

\* the effect of initializeCategory on the objects of a classifier
InitCategory(s, categoryName) ==
    IF ~GetFlag(Range(s.categories), categoryName)
    THEN [s EXCEPT
            !.docCount = Put(@, categoryName, Num(0)),
            !.wordCount = Put(@, categoryName, Num(0)),
            !.wordFrequencyCount =
                [k \in DOMAIN @ \cup {categoryName} |->
                    IF k = categoryName THEN EmptyObj ELSE @[k]],
            !.categories = Append(@, categoryName)]
    ELSE s

initializeCategory(i, categoryName) ==
    /\ i \in Alive
    /\ stores' = [stores EXCEPT ![inst[i].store] = InitCategory(@, categoryName)]
    /\ ret' = This(i)
    /\ UNCHANGED <<inst, ObjectFn, produced, learnCalls, newCalls>>

(* ------------------------------ learn ---------------------------------- *)

\* the new value of target[token] in the frequency update of learn
FrequencyUpdate(current, frequencyInText) ==
    IF ~Truthy(current) THEN Num(frequencyInText)
    ELSE Plus(current, frequencyInText)

\* one iteration of the forEach over the keys of the frequency table;
\* m holds the objects of the classifier (s), its vocabularySize (vs) and the
\* properties of the global function Object (obj)
LearnToken(m, category, token, frequencyInText) ==
    LET newVocab == ~GetFlag(m.s.vocabulary, token)
        wfc == m.s.wordFrequencyCount
        own == category \in DOMAIN wfc
        \* wordFrequencyCount[category] is an own object, or else the
        \* inherited Object.prototype[category], the function Object (after
        \* initializeCategory it is never undefined: a name that passes the
        \* test of initializeCategory gets an own entry)
        s1 == [m.s EXCEPT
                 !.vocabulary = IF newVocab THEN @ \cup {token} ELSE @,
                 !.wordFrequencyCount =
                     IF own
                     THEN [@ EXCEPT ![category] =
                             Put(@, token,
                                 FrequencyUpdate(Get(wfc[category], token),
                                                 frequencyInText))]
                     ELSE @,
                 !.wordCount =
                     Put(@, category, Plus(Get(@, category), frequencyInText))]
    IN [s |-> s1,
        vs |-> IF newVocab THEN m.vs + 1 ELSE m.vs,
        obj |-> IF own THEN m.obj
                ELSE Put(m.obj, token,
                         FrequencyUpdate(GetOnObjectFn(m.obj, token),
                                         frequencyInText))]

RECURSIVE LearnTokens(_, _, _, _)
\* Object.keys(frequencyTable).forEach(...), from the k-th key on
LearnTokens(m, category, ft, k) ==
    IF k > Len(ft.keys) THEN m
    ELSE LearnTokens(LearnToken(m, category, ft.keys[k], ft.count[ft.keys[k]]),
                     category, ft, k + 1)

\* the effect of learn(text, category) on a classifier with objects s and
\* scalar fields td (totalDocuments) and vs (vocabularySize)
LearnEffect(s, td, vs, obj, text, category) ==
    LET s1 == InitCategory(s, category)
        s2 == [s1 EXCEPT
                 !.docCount = Put(@, category, Incr(Get(@, category)))]
        ft == frequencyTable(defaultTokenizer(text))
        m == LearnTokens([s |-> s2, vs |-> vs, obj |-> obj], category, ft, 1)
    IN [s |-> m.s, td |-> td + 1, vs |-> m.vs, obj |-> m.obj]

learn(i, text, category) ==
    /\ i \in Alive
    /\ learnCalls < MaxLearn
    /\ LET e == LearnEffect(StoreOf(i), inst[i].totalDocuments,
                            inst[i].vocabularySize, ObjectFn, text, category)
       IN /\ stores' = [stores EXCEPT ![inst[i].store] = e.s]
          /\ inst' = [inst EXCEPT ![i].totalDocuments = e.td,
                                  ![i].vocabularySize = e.vs]
          /\ ObjectFn' = e.obj
    /\ produced' = [produced EXCEPT ![i] = @ \cup Range(defaultTokenizer(text))]
    /\ learnCalls' = learnCalls + 1
    /\ UNCHANGED newCalls
    /\ ret' = This(i)

(* --------------------------- floating point ---------------------------- *)

\* A double is "NaN", "+Inf", "-Inf" or a finite ratio p/q (q > 0) in lowest
\* terms.  A log-probability is represented by the ratio whose logarithm it
\* is; Math.log is monotone, so comparisons of scores are comparisons of
\* these ratios, and sums of logarithms are products (rounding is not
\* modelled).
dNaN == [k |-> "NaN", p |-> 0, q |-> 1]
PosInf == [k |-> "+Inf", p |-> 0, q |-> 1]
NegInf == [k |-> "-Inf", p |-> 0, q |-> 1]

RECURSIVE GCD(_, _)
GCD(a, b) == IF b = 0 THEN a ELSE GCD(b, a % b)

Ratio(p, q) == [k |-> "fin", p |-> p \div GCD(p, q), q |-> q \div GCD(p, q)]

\* a / b for a property value a and a number b
Divide(a, b) ==
    IF ToNumber(a).t = "NaN" THEN dNaN
    ELSE IF b = 0 THEN (IF ToNumber(a).n = 0 THEN dNaN ELSE PosInf)
    ELSE Ratio(ToNumber(a).n, b)

\* Math.log, in the representation above: log 0 is -Infinity
Log(x) ==
    CASE x.k = "NaN" -> dNaN
      [] x.k = "+Inf" -> PosInf
      [] x.k = "-Inf" -> dNaN
      [] x.k = "fin" -> IF x.p = 0 THEN NegInf ELSE x

RECURSIVE Power(_, _)
Power(b, e) == IF e = 0 THEN 1 ELSE b * Power(b, e - 1)

\* acc + frequencyInText * c for doubles acc and c (frequencyInText >= 1)
AddScaled(acc, frequencyInText, c) ==
    CASE acc.k = "NaN" \/ c.k = "NaN" -> dNaN
      [] acc.k = "+Inf" /\ c.k # "NaN" -> IF c.k = "-Inf" THEN dNaN ELSE PosInf
      [] acc.k = "-Inf" /\ c.k # "NaN" -> IF c.k = "+Inf" THEN dNaN ELSE NegInf
      [] acc.k = "fin" /\ c.k = "+Inf" -> PosInf
      [] acc.k = "fin" /\ c.k = "-Inf" -> NegInf
      [] acc.k = "fin" /\ c.k = "fin" ->
            Ratio(acc.p * Power(c.p, frequencyInText),
                  acc.q * Power(c.q, frequencyInText))

\* a > b
Greater(a, b) ==
    CASE a.k = "NaN" \/ b.k = "NaN" -> FALSE
      [] a.k = "+Inf" /\ b.k # "NaN" -> b.k # "+Inf"
      [] a.k = "-Inf" /\ b.k # "NaN" -> FALSE
      [] a.k = "fin" /\ b.k = "-Inf" -> TRUE
      [] a.k = "fin" /\ b.k = "+Inf" -> FALSE
      [] a.k = "fin" /\ b.k = "fin" -> a.p * b.q > b.p * a.q

\* the sign a sort comparator's result a - b is read as: NaN counts as 0
Compare(a, b) ==
    IF Greater(a, b) THEN 1 ELSE IF Greater(b, a) THEN -1 ELSE 0

(* -------------------------- tokenProbability --------------------------- *)

\* (wordFrequencyCount + 1) / (wordCount + this.vocabularySize) for a
\* category that has an own entry in wordFrequencyCount, as every key of
\* categories has
tokenProbability(s, vs, token, category) ==
    LET found == Get(s.wordFrequencyCount[category], token)
        wordFrequencyCount == IF Truthy(found) THEN found ELSE Num(0)
        wordCount == Get(s.wordCount, category)
        numerator == ToNumber(Plus(wordFrequencyCount, 1))
        denominator == ToNumber(Plus(wordCount, vs))
    IN IF numerator.t = "NaN" \/ denominator.t = "NaN" THEN dNaN
       ELSE Divide(numerator, denominator.n)

(* ----------------------------- categorize ------------------------------ *)

RECURSIVE TokenScore(_, _, _, _, _, _)
\* the inner forEach: accumulates frequencyInText * log P(w | c)
TokenScore(s, vs, category, ft, k, logProbability) ==
    IF k > Len(ft.keys) THEN logProbability
    ELSE TokenScore(s, vs, category, ft, k + 1,
             AddScaled(logProbability, ft.count[ft.keys[k]],
                       Log(tokenProbability(s, vs, ft.keys[k], category))))

\* the score of one category: log of the prior plus the token terms
CategoryScore(s, td, vs, category, ft) ==
    TokenScore(s, vs, category, ft, 1,
               Log(Divide(Get(s.docCount, category), td)))

RECURSIVE CategorizeLoop(_, _, _, _, _, _)
\* the outer forEach over Object.keys(self.categories), from the k-th on;
\* r holds maxProbability and the CategoryResults under construction
CategorizeLoop(s, td, vs, ft, k, r) ==
    IF k > Len(s.categories) THEN r
    ELSE LET category == s.categories[k]
             logProbability == CategoryScore(s, td, vs, category, ft)
             pushed == Append(r.categoryResults,
                              [name |-> category, probability |-> logProbability])
         IN CategorizeLoop(s, td, vs, ft, k + 1,
              IF Greater(logProbability, r.maxProbability)
              THEN [maxProbability |-> logProbability,
                    chosenCategory |-> Some(category),
                    probability |-> Some(logProbability),
                    categoryResults |-> pushed]
              ELSE [r EXCEPT !.categoryResults = pushed])

\* a slip that would leave a chosenCategory in the result of a classifier
\* without categories: the result starts out with the empty name chosen
ClassifyPreset(s, td, vs, text) ==
    CategorizeLoop(s, td, vs, frequencyTable(defaultTokenizer(text)), 1,
                   [maxProbability |-> NegInf, chosenCategory |-> Some(S_empty),
                    probability |-> None, categoryResults |-> << >>])

\* the CategoryResults before the final sort
Classify(s, td, vs, text) ==
    CategorizeLoop(s, td, vs, frequencyTable(defaultTokenizer(text)), 1,
                   [maxProbability |-> NegInf, chosenCategory |-> None,
                    probability |-> None, categoryResults |-> << >>])

\* the comparator (n1, n2) => n2.probability - n1.probability orders the
\* results consistently unless a NaN score sits between two different scores
ConsistentComparator(results) ==
    \A i, j, l \in 1..Len(results) :
        (Compare(results[i].probability, results[j].probability) = 0
         /\ Compare(results[j].probability, results[l].probability) = 0)
            => Compare(results[i].probability, results[l].probability) = 0

Permutation(n) ==
    { f \in [1..n -> 1..n] : \A i, j \in 1..n : i # j => f[i] # f[j] }

\* the orders Array.prototype.sort may leave the results in: the stable
\* descending order, or any order at all when the comparator is inconsistent
SortOutcomes(results) ==
    LET n == Len(results)
    IN { [i \in 1..n |-> results[f[i]]] : f \in
           { g \in Permutation(n) :
               ConsistentComparator(results) =>
                  \A i, j \in 1..n : i < j =>
                     \/ Greater(results[g[i]].probability, results[g[j]].probability)
                     \/ /\ Compare(results[g[i]].probability,
                                   results[g[j]].probability) = 0
                        /\ g[i] < g[j] } }

categorize(i, text) ==
    /\ i \in Alive
    /\ LET r == Classify(StoreOf(i), inst[i].totalDocuments,
                         inst[i].vocabularySize, text)
       IN \E sorted \in SortOutcomes(r.categoryResults) :
             ret' = [kind |-> "CategoryResults", inst |-> i,
                     chosenCategory |-> r.chosenCategory,
                     probability |-> r.probability,
                     categoryResults |-> sorted]
    /\ UNCHANGED <<inst, stores, ObjectFn, produced, learnCalls, newCalls>>

(* ------------------------- toJson / fromJson --------------------------- *)

\* JSON.stringify of a property value: NaN is written as null
JsonValue(v) == IF v.t = "NaN" THEN Null ELSE v

JsonObject(obj) == [k \in DOMAIN obj |-> JsonValue(obj[k])]

\* JSON.stringify(this), as the tree the text denotes: the tokenizer, a
\* function, is left out, and so options is written as {}
Stringify(s, td, vs) ==
    [docCount |-> JsonObject(s.docCount),
     wordCount |-> JsonObject(s.wordCount),
     wordFrequencyCount |->
         [c \in DOMAIN s.wordFrequencyCount |-> JsonObject(s.wordFrequencyCount[c])],
     categories |-> s.categories,
     vocabulary |-> s.vocabulary,
     totalDocuments |-> td,
     vocabularySize |-> vs,
     options |-> EmptyObj]

toJson(i) ==
    /\ i \in Alive
    /\ ret' = [kind |-> "string", inst |-> i,
               json |-> Stringify(StoreOf(i), inst[i].totalDocuments,
                                  inst[i].vocabularySize)]
    /\ UNCHANGED <<inst, stores, ObjectFn, produced, learnCalls, newCalls>>

\* the objects JSON.parse builds, which new Bayes(parsed, parsed.options)
\* then takes over as its fields
Parse(json) ==
    [s |-> [docCount |-> json.docCount,
            wordCount |-> json.wordCount,
            wordFrequencyCount |-> json.wordFrequencyCount,
            categories |-> json.categories,
            vocabulary |-> json.vocabulary],
     td |-> json.totalDocuments,
     vs |-> json.vocabularySize]

\* j = Bayes.fromJson(jsonStr), jsonStr being the string toJson just returned
fromJson(j) ==
    /\ ret.kind = "string"
    /\ newCalls < MaxNew
    /\ LET parsed == Parse(ret.json)
           newInst == [inst EXCEPT ![j] =
                          [alive |-> TRUE, store |-> FreshStoreFor(j),
                           totalDocuments |-> parsed.td,
                           vocabularySize |-> parsed.vs]]
       IN /\ inst' = newInst
          /\ stores' = Collect(newInst, [stores EXCEPT ![FreshStoreFor(j)] = parsed.s])
    /\ produced' = [produced EXCEPT ![j] = produced[ret.inst]]
    /\ ret' = Constructed(j)
    /\ newCalls' = newCalls + 1
    /\ UNCHANGED <<ObjectFn, learnCalls>>

\* Bayes.fromJson(jsonStr) for a string that is not JSON: JSON.parse throws
\* and the catch block throws the Error; no classifier is built
fromJsonInvalid ==
    /\ ret' = [kind |-> "Error",
               message |-> "bayes.fromJson expects a valid JSON string."]
    /\ UNCHANGED <<inst, stores, ObjectFn, produced, learnCalls, newCalls>>

(* --------------------------- specification ----------------------------- *)

\* a client that holds one classifier in the variable A
Next ==
    \/ New("A")
    \/ \E c \in CategoryNames : initializeCategory("A", c)
    \/ \E t \in Texts, c \in CategoryNames : learn("A", t, c)
    \/ \E t \in Texts : categorize("A", t)
    \/ toJson("A")
    \/ fromJson("A")
    \/ fromJsonInvalid

Spec == Init /\ [][Next]_vars

\* a client that holds classifiers in several variables, builds one from
\* another or from another's JSON, and trains them
NextClients ==
    \/ \E j \in Instances : New(j)
    \/ \E i, j \in Instances : NewFrom(i, j)
    \/ \E i \in Instances, c \in CategoryNames : initializeCategory(i, c)
    \/ \E i \in Instances, t \in Texts, c \in CategoryNames : learn(i, t, c)
    \/ \E i \in Instances : toJson(i)
    \/ \E j \in Instances : fromJson(j)

SpecClients == Init /\ [][NextClients]_vars

\* a client that only trains one classifier and classifies with it
NextTrain ==
    \/ \E t \in Texts, c \in CategoryNames : learn("A", t, c)
    \/ \E t \in Texts : categorize("A", t)

SpecTrain == Init /\ [][NextTrain]_vars

(* ------------------------------ properties ----------------------------- *)

\* the Category Store fields of the classifier held by variable i
Fields(i) ==
    [docCount |-> StoreOf(i).docCount,
     wordCount |-> StoreOf(i).wordCount,
     wordFrequencyCount |-> StoreOf(i).wordFrequencyCount,
     categories |-> StoreOf(i).categories,
     vocabulary |-> StoreOf(i).vocabulary,
     vocabularySize |-> inst[i].vocabularySize,
     totalDocuments |-> inst[i].totalDocuments]

\* the tokens the texts of the model contain, and one that none contains
Tokens == UNION { Range(defaultTokenizer(t)) : t \in Texts } \cup { S_x }

RECURSIVE SumOver(_, _)
\* the sum of the numbers obj holds under the given keys
SumOver(obj, keys) ==
    IF keys = {} THEN 0
    ELSE LET k == CHOOSE k \in keys : TRUE
         IN obj[k].n + SumOver(obj, keys \ {k})

\* C1: in every state and for every category of a classifier, wordCount of
\* the category equals the sum of the category's per-token frequency counts.
CountConservation ==
    \A i \in Alive : \A c \in Range(StoreOf(i).categories) :
        LET table == StoreOf(i).wordFrequencyCount[c]
        IN /\ \A token \in DOMAIN table : table[token].t = "number"
           /\ Get(StoreOf(i).wordCount, c) = Num(SumOver(table, DOMAIN table))

\* C2: in every state vocabularySize is the number of tokens in vocabulary,
\* and vocabulary is exactly the set of tokens the tokenizer produced for the
\* learn calls so far.
VocabularyInvariant ==
    \A i \in Alive :
        /\ inst[i].vocabularySize = Cardinality(StoreOf(i).vocabulary)
        /\ StoreOf(i).vocabulary = produced[i]

\* C3: the string toJson returns parses back to fields deep-equal to those
\* of the classifier it was taken from.
RoundTrip ==
    ret.kind = "string" =>
        LET parsed == Parse(ret.json)
        IN /\ parsed.s = StoreOf(ret.inst)
           /\ parsed.td = inst[ret.inst].totalDocuments
           /\ parsed.vs = inst[ret.inst].vocabularySize

\* C4: when one classifier was constructed from another, a learn or
\* initializeCategory call on either leaves every field of the other
\* unchanged.
InstanceIndependence ==
    [][\A a, b \in Instances :
          (/\ a # b
           /\ inst[a].alive /\ inst[b].alive
           /\ inst[a].store = inst[b].store
           /\ ret'.kind = "this" /\ ret'.inst = b)
              => Fields(a)' = Fields(a)]_vars

\* C5: learn(text, c) for a category c that is not yet present makes c
\* present with docCount 1, wordCount the number of tokens of the text and
\* wordFrequencyCount[c] the in-text count of each distinct token.
CategoryCreation ==
    \A i \in Alive, text \in Texts, c \in CategoryNames :
        c \notin Range(StoreOf(i).categories) =>
            LET e == LearnEffect(StoreOf(i), inst[i].totalDocuments,
                                 inst[i].vocabularySize, ObjectFn, text, c)
                tokens == defaultTokenizer(text)
                ft == frequencyTable(tokens)
            IN /\ c \in Range(e.s.categories)
               /\ Get(e.s.docCount, c) = Num(1)
               /\ Get(e.s.wordCount, c) = Num(Len(tokens))
               /\ c \in DOMAIN e.s.wordFrequencyCount
               /\ e.s.wordFrequencyCount[c] =
                      [token \in Range(ft.keys) |-> Num(ft.count[token])]

\* the score the returned results give to a category name
ScoresOf(results, name) ==
    { results[k].probability : k \in { n \in 1..Len(results) : results[n].name = name } }

\* C6: categorize on a classifier with at least one category returns a
\* chosenCategory that is a known category, whose score is the returned
\* probability and the maximum of the scores, and which comes first in
\* category order among the categories with that score.
ChosenCategoryConsistency ==
    (ret.kind = "CategoryResults" /\ Len(StoreOf(ret.inst).categories) >= 1) =>
        /\ ret.chosenCategory # None
        /\ LET chosen == ret.chosenCategory[1]
               cats == StoreOf(ret.inst).categories
               results == ret.categoryResults
           IN /\ chosen \in Range(cats)
              /\ ScoresOf(results, chosen) = { ret.probability[1] }
              /\ \A k \in 1..Len(results) :
                    /\ results[k].probability.k # "NaN"
                    /\ ~Greater(results[k].probability, ret.probability[1])
              /\ \A k \in 1..Len(cats) :
                    ScoresOf(results, cats[k]) = { ret.probability[1] }
                        => \E n \in 1..k : cats[n] = chosen

\* C7: a categorize call on a classifier without categories returns an
\* empty result list and no chosenCategory, and changes nothing.
DegenerateInference ==
    [][(ret'.kind = "CategoryResults"
        /\ Len(stores'[inst'[ret'.inst].store].categories) = 0)
          => /\ ret'.categoryResults = << >>
             /\ ret'.chosenCategory = None
             /\ ret'.probability = None
             /\ UNCHANGED <<inst, stores, ObjectFn>>]_vars

\* C7 witness: categorize has returned for a classifier that has learned a
\* document and still has no category.
DegenerateInferenceWitness ==
    /\ ret.kind = "CategoryResults"
    /\ Len(StoreOf(ret.inst).categories) = 0
    /\ inst[ret.inst].totalDocuments >= 1
    /\ ret.categoryResults = << >>
    /\ ret.chosenCategory = None

\* the fields two orders of learn calls are compared on
Outcome(e) ==
    [docCount |-> e.s.docCount,
     wordCount |-> e.s.wordCount,
     wordFrequencyCount |-> e.s.wordFrequencyCount,
     categories |-> Range(e.s.categories),
     vocabulary |-> e.s.vocabulary,
     vocabularySize |-> e.vs,
     totalDocuments |-> e.td]

\* learn(t1, c1) followed by learn(t2, c2)
LearnTwice(s, td, vs, obj, t1, c1, t2, c2) ==
    LET e == LearnEffect(s, td, vs, obj, t1, c1)
    IN LearnEffect(e.s, e.td, e.vs, e.obj, t2, c2)

\* C8: from every state, two learn calls give the same fields in either
\* order.
LearnCommutativity ==
    \A i \in Alive, t1, t2 \in Texts, c1, c2 \in CategoryNames :
        Outcome(LearnTwice(StoreOf(i), inst[i].totalDocuments,
                           inst[i].vocabularySize, ObjectFn, t1, c1, t2, c2))
      = Outcome(LearnTwice(StoreOf(i), inst[i].totalDocuments,
                           inst[i].vocabularySize, ObjectFn, t2, c2, t1, c1))

\* C9: the empty string is never in vocabulary and never a key of a
\* category's frequency counts.
NoEmptyToken ==
    \A i \in Alive :
        /\ S_empty \notin StoreOf(i).vocabulary
        /\ \A c \in DOMAIN StoreOf(i).wordFrequencyCount :
              S_empty \notin DOMAIN StoreOf(i).wordFrequencyCount[c]

\* C10: with vocabularySize >= 1, tokenProbability of every token and every
\* category is a number greater than 0 and at most 1.
SmoothingPositivity ==
    \A i \in Alive :
        inst[i].vocabularySize >= 1 =>
            \A c \in Range(StoreOf(i).categories), token \in Tokens :
                LET pr == tokenProbability(StoreOf(i), inst[i].vocabularySize,
                                           token, c)
                IN pr.k = "fin" /\ 0 < pr.p /\ pr.p <= pr.q

====
